---- MODULE Spec2Model ----
(***************************************************************************)
(* Model of password_reset/views.py: the signed-token protocol of the      *)
(* password recovery handshake (Recover, RecoverDone, Reset) together with *)
(* the django.core.signing calls the views make.                           *)
(*                                                                         *)
(* Time is counted in ticks; TicksPerSec ticks make one second, so that    *)
(* the float clock time.time() and the whole-second timestamp embedded in  *)
(* a token (int(time.time())) are distinguishable.                         *)
(***************************************************************************)
EXTENDS Integers, Sequences, FiniteSets, TLC

\* ---------------------------------------------------------------- bounds
\* clock ticks per second
TicksPerSec == 2
\* the clock readings cover whole seconds 0..MaxOffset after each base time
MaxOffset == 1
\* largest backward clock step, in seconds
MaxStepBack == 1
\* most ticks that pass between the two clock readings of one request
MaxReadGap == 1
\* recovery requests that hand out tokens
MaxRecover == 1
\* requests that are handled at the same time
MaxRequests == 2
\* multiples of token_expires the clock can reach
MaxLeaps == 1
\* a delay, in seconds, well inside token_expires
SampleDelay == 10000

\* ------------------------------------------------------- class attributes
salt == "password_recovery"
url_salt == "password_recovery_url"
fake_salt == "fake-send"
token_expires == 3600 * 48
forcing_max_age == -1
SECRET_KEY == "secret"

None == [t |-> "none", v |-> 0]
PyInt(n) == [t |-> "int", v |-> n]
PyStr(s) == [t |-> "str", v |-> s]

\* ----------------------------------------------------------- the accounts
Users == { [pk |-> 1, username |-> "alice", email |-> "alice@example.com"],
           [pk |-> 2, username |-> "bob", email |-> "bob@example.com"] }
NoUser == [pk |-> 0, username |-> "", email |-> ""]
Pks == {u.pk : u \in Users}
UserByPk(pk) == CHOOSE u \in Users : u.pk = pk
\* what a client may type into the recovery form
Identifiers == {"alice", "bob@example.com", "1"}
SearchFieldsChoices == { <<"username">>, <<"email">>, <<"username", "email">> }

\* ------------------------------------------------------------- the state
\* now: the wall clock; search_fields, fail_noexistent_user: the class
\* attributes of the deployed views; accounts: the pks in the User table;
\* issued: the tokens handed out so far; flow: what has happened so far to
\* each reset token handed out; resp: the response in flight
VARIABLES now, search_fields, fail_noexistent_user, accounts, issued, flow, resp
\* for the requests handled at the same time: req, the position and the
\* effects of each request; self, the attributes of the view instances;
\* mailbox, the reset tokens that were mailed
VARIABLES req, self, mailbox
seqVars == <<now, search_fields, fail_noexistent_user, accounts, issued, flow, resp>>
concVars == <<req, self, mailbox>>
vars == <<now, search_fields, fail_noexistent_user, accounts, issued, flow, resp,
          req, self, mailbox>>

\* ------------------------------------------------ django.core.signing
DigitChars == <<"0", "1", "2", "3", "4", "5", "6", "7", "8", "9">>
IsDigit(c) == \E i \in 1..10 : DigitChars[i] = c
DigitVal(c) == (CHOOSE i \in 1..10 : DigitChars[i] = c) - 1

RECURSIVE IntToDigits(_)
IntToDigits(n) ==
    IF n < 10 THEN <<DigitChars[n + 1]>>
    ELSE Append(IntToDigits(n \div 10), DigitChars[(n % 10) + 1])

RECURSIVE DigitsToInt(_)
DigitsToInt(ds) ==
    IF Len(ds) = 0 THEN 0
    ELSE 10 * DigitsToInt(SubSeq(ds, 1, Len(ds) - 1)) + DigitVal(ds[Len(ds)])

\* compact JSON text of a Python value: a number is its digits, a string is
\* quoted
json_dumps_unquoted(obj) ==
    IF obj.t = "int" THEN IntToDigits(obj.v) ELSE <<obj.v>>
json_dumps(obj) ==
    IF obj.t = "int" THEN IntToDigits(obj.v) ELSE <<"\"", obj.v, "\"">>

json_loads(text) ==
    IF Head(text) = "\"" THEN PyStr(text[2])
    ELSE IF \A i \in 1..Len(text) : IsDigit(text[i]) THEN PyInt(DigitsToInt(text))
    ELSE PyStr(text[1])

b64_encode(text) == [b64 |-> text]
b64_decode(enc) == enc.b64
b62_encode(n) == [b62 |-> n]
b62_decode(enc) == enc.b62

\* salted_hmac(salt + 'signer', value, key): an ideal MAC, equal only when
\* key salt, message and key are all equal
signature_unsalted(slt, value) ==
    [key_salt |-> "signer", msg |-> value, key |-> SECRET_KEY]
signature(slt, value) ==
    [key_salt |-> slt \o "signer", msg |-> value, key |-> SECRET_KEY]

\* int(time.time()): the clock truncated to whole seconds
timestamp(clock) == clock \div TicksPerSec

\* signing.dumps(obj, salt=slt) at clock reading `clock`: value:timestamp:sig
dumps(obj, slt, clock) ==
    LET value == b64_encode(json_dumps(obj))
        ts == b62_encode(timestamp(clock))
    IN  <<value, ts, signature(slt, <<value, ts>>)>>

BadSignature == [ok |-> FALSE, exc |-> "BadSignature", msg |-> <<>>, obj |-> None]
SignatureExpired(age, max_age) ==
    [ok |-> FALSE, exc |-> "SignatureExpired",
     msg |-> <<"Signature age ", age, " >", max_age, " seconds">>, obj |-> None]
Loaded(obj) == [ok |-> TRUE, exc |-> "", msg |-> <<>>, obj |-> obj]

NoMaxAge == [t |-> "none", v |-> 0]
MaxAge(seconds) == [t |-> "int", v |-> seconds]

\* age > max_age, both as seconds (age is kept in ticks)
IsExpired_exclusive(age, max_age) == age >= max_age * TicksPerSec
IsExpired(age, max_age) == age > max_age * TicksPerSec

\* signing.loads(s, salt=slt, max_age=max_age) at clock reading `clock`
loads(s, slt, max_age, clock) ==
    IF Len(s) < 2 THEN BadSignature
    ELSE LET sig == s[Len(s)]
             signed == SubSeq(s, 1, Len(s) - 1)
         IN  IF sig # signature(slt, signed) THEN BadSignature
             ELSE LET age == clock - b62_decode(signed[2]) * TicksPerSec
                  IN  IF max_age.t = "int" /\ IsExpired(age, max_age.v)
                      THEN SignatureExpired(age, max_age.v)
                      ELSE Loaded(json_loads(b64_decode(signed[1])))

\* ------------------------------------------------ password_reset.views
\* float(str(e).split('Signature age ')[1].split(' >')[0])
parse_age_max_age(msg) == msg[4] * TicksPerSec
parse_age(msg) == msg[2]

Raised(exc) == [exc |-> exc, ret |-> None]
Returned(val) == [exc |-> "", ret |-> val]
PyTuple(a, b) == [t |-> "tuple", v |-> <<a, b>>]

loads_with_timestamp_swallow(value, slt, clock1, clock2) ==
    LET r == loads(value, slt, MaxAge(forcing_max_age), clock1)
    IN  IF r.exc = "SignatureExpired"
        THEN Returned(PyTuple(clock2 - parse_age(r.msg),
                              loads(value, slt, NoMaxAge, clock2).obj))
        ELSE Returned(None)

\* loads_with_timestamp(value, salt); clock1 is the reading signing.loads
\* takes to compute the age, clock2 the later reading of timezone.now()
loads_with_timestamp(value, slt, clock1, clock2) ==
    LET r == loads(value, slt, MaxAge(forcing_max_age), clock1)
    IN  IF r.exc = "SignatureExpired"
        THEN LET age == parse_age(r.msg)
                 ts == clock2 - age
             IN  Returned(PyTuple(ts, loads(value, slt, NoMaxAge, clock2).obj))
        ELSE IF r.exc = "BadSignature" THEN Raised("BadSignature")
        ELSE Returned(None)

EmptyCtx == [k \in {} |-> None]
Ctx2(ts, email) == [k \in {"timestamp", "email"} |->
                        IF k = "timestamp" THEN PyInt(ts) ELSE email]

\* RecoverDone.get_context_data for self.kwargs['signature'] = sig
RecoverDone_get_context_data(sig, fail, clock1, clock2) ==
    LET r == loads_with_timestamp(sig, url_salt, clock1, clock2)
    IN  IF r.exc = "BadSignature"
        THEN IF fail
             THEN [status |-> "Http404", ctx |-> EmptyCtx]
             ELSE [status |-> "render", ctx |-> EmptyCtx]
        ELSE IF r.ret.t = "tuple"
        THEN [status |-> "render", ctx |-> Ctx2(r.ret.v[1], r.ret.v[2])]
        ELSE \* unpacking None into two targets
             [status |-> "TypeError", ctx |-> EmptyCtx]

\* the form's lookup: cleaned_data['user'] for the submitted identifier
FindUser(identifier, fields) ==
    LET matches == { u \in Users :
                       \E i \in 1..Len(fields) :
                           \/ fields[i] = "username" /\ u.username = identifier
                           \/ fields[i] = "email" /\ u.email = identifier }
    IN  IF Cardinality(matches) = 1 THEN CHOOSE u \in matches : TRUE ELSE NoUser

get_email_context_token_url_salt(user, clock) == dumps(PyInt(user.pk), url_salt, clock)
\* Recover.get_email_context()['token']
get_email_context_token(user, clock) == dumps(PyInt(user.pk), salt, clock)

\* Recover.send_notification: the one mail handed to send_templated_mail
send_notification(user, clock) ==
    [to |-> user.email, token |-> get_email_context_token(user, clock)]

\* the identifier Recover.form_valid discloses in the acknowledgement token
disclosed_always_email(user, fields) == user.email
disclosed(user, fields) ==
    IF Len(fields) = 1 /\ fields[1] = "username" THEN user.username
    ELSE user.email

NoToken == <<>>

\* Recover.form_valid(form) with cleaned_data = {user, username_or_email}
Recover_form_valid_send_always(user, identifier, fields, clock, sendOk) ==
    IF user # NoUser
    THEN [status |-> "redirect",
          mails |-> <<send_notification(user, clock)>>,
          mail_signature |-> dumps(PyStr(disclosed(user, fields)), url_salt, clock)]
    ELSE [status |-> "redirect",
          mails |-> <<[to |-> identifier, token |-> NoToken]>>,
          mail_signature |-> dumps(PyStr(identifier), fake_salt, clock)]
Recover_form_valid_retry(user, identifier, fields, clock, sendOk) ==
    IF user # NoUser
    THEN [status |-> "redirect",
          mails |-> IF sendOk THEN <<send_notification(user, clock)>>
                    ELSE <<send_notification(user, clock), send_notification(user, clock)>>,
          mail_signature |-> dumps(PyStr(disclosed(user, fields)), url_salt, clock)]
    ELSE [status |-> "redirect",
          mails |-> <<>>,
          mail_signature |-> dumps(PyStr(identifier), fake_salt, clock)]
Recover_form_valid(user, identifier, fields, clock, sendOk) ==
    IF user # NoUser
    THEN IF sendOk
         THEN [status |-> "redirect",
               mails |-> <<send_notification(user, clock)>>,
               mail_signature |-> dumps(PyStr(disclosed(user, fields)), url_salt, clock)]
         ELSE [status |-> "MailError",
               mails |-> <<send_notification(user, clock)>>,
               mail_signature |-> NoToken]
    ELSE [status |-> "redirect",
          mails |-> <<>>,
          mail_signature |-> dumps(PyStr(identifier), fake_salt, clock)]

\* get_object_or_404(User, pk=pk): the pk is coerced to an integer
ToPk(obj) ==
    IF obj.t = "int" THEN obj.v
    ELSE IF obj.t = "str" /\ IsDigit(obj.v) THEN DigitVal(obj.v)
    ELSE 0

\* Reset.dispatch(request, token=token) up to the call of the parent's dispatch
Reset_dispatch_no_expiry(token, clock) ==
    LET r == loads(token, salt, NoMaxAge, clock)
    IN  IF ~r.ok THEN [status |-> "invalid", user |-> 0, lookups |-> <<>>]
        ELSE [status |-> "authorized", user |-> ToPk(r.obj), lookups |-> <<ToPk(r.obj)>>]
Reset_dispatch_single_use(token, clock) ==
    LET r == loads(token, salt, MaxAge(token_expires), clock)
    IN  IF ~r.ok \/ (token \in DOMAIN flow /\ flow[token] = "Completed")
        THEN [status |-> "invalid", user |-> 0, lookups |-> <<>>]
        ELSE LET pk == ToPk(r.obj)
             IN  IF pk \in accounts
                 THEN [status |-> "authorized", user |-> pk, lookups |-> <<pk>>]
                 ELSE [status |-> "Http404", user |-> 0, lookups |-> <<pk>>]
Reset_dispatch_trust_authorized(token, clock) ==
    LET r == loads(token, salt,
                   IF token \in DOMAIN flow /\ flow[token] = "Authorized"
                   THEN NoMaxAge ELSE MaxAge(token_expires), clock)
    IN  IF ~r.ok
        THEN [status |-> "invalid", user |-> 0, lookups |-> <<>>]
        ELSE LET pk == ToPk(r.obj)
             IN  IF pk \in accounts
                 THEN [status |-> "authorized", user |-> pk, lookups |-> <<pk>>]
                 ELSE [status |-> "Http404", user |-> 0, lookups |-> <<pk>>]
Reset_dispatch_404_as_invalid(token, clock) ==
    LET r == loads(token, salt, MaxAge(token_expires), clock)
    IN  IF ~r.ok \/ ToPk(r.obj) \notin accounts
        THEN [status |-> "invalid", user |-> 0, lookups |-> <<>>]
        ELSE [status |-> "authorized", user |-> ToPk(r.obj),
              lookups |-> <<ToPk(r.obj)>>]
Reset_dispatch(token, clock) ==
    LET r == loads(token, salt, MaxAge(token_expires), clock)
    IN  IF ~r.ok
        THEN [status |-> "invalid", user |-> 0, lookups |-> <<>>]
        ELSE LET pk == ToPk(r.obj)
             IN  IF pk \in accounts
                 THEN [status |-> "authorized", user |-> pk, lookups |-> <<pk>>]
                 ELSE [status |-> "Http404", user |-> 0, lookups |-> <<pk>>]

\* a whole Reset request: dispatch, then FormView's get or post; a POST of a
\* valid form runs Reset.form_valid, whose form.save() may fail (saveOk).
\* save_calls counts the calls of form.save(), saved is the accounts whose
\* credential was changed
Reset_request_swallow_save_error(method, token, formOk, saveOk, clock) ==
    LET d == Reset_dispatch(token, clock)
    IN  IF d.status # "authorized"
        THEN [status |-> d.status, user |-> d.user, lookups |-> d.lookups,
              save_calls |-> 0, saved |-> {}]
        ELSE IF method = "POST" /\ formOk
        THEN [status |-> "redirect_done", user |-> d.user, lookups |-> d.lookups,
              save_calls |-> 1, saved |-> IF saveOk THEN {d.user} ELSE {}]
        ELSE [status |-> "form", user |-> d.user, lookups |-> d.lookups,
              save_calls |-> 0, saved |-> {}]
Reset_request(method, token, formOk, saveOk, clock) ==
    LET d == Reset_dispatch(token, clock)
    IN  IF d.status # "authorized"
        THEN [status |-> d.status, user |-> d.user, lookups |-> d.lookups,
              save_calls |-> 0, saved |-> {}]
        ELSE IF method = "POST" /\ formOk
        THEN IF saveOk
             THEN [status |-> "redirect_done", user |-> d.user, lookups |-> d.lookups,
                   save_calls |-> 1, saved |-> {d.user}]
             ELSE [status |-> "SaveError", user |-> d.user, lookups |-> d.lookups,
                   save_calls |-> 1, saved |-> {}]
        ELSE [status |-> "form", user |-> d.user, lookups |-> d.lookups,
              save_calls |-> 0, saved |-> {}]

\* ------------------------------------------------------ the state machine

\* the clock readings of the model: a little after the epoch and a little
\* after each multiple of token_expires
ClockBases == { b * token_expires : b \in 0..MaxLeaps } \cup {SampleDelay}
ClockValues ==
    { (b + s) * TicksPerSec + o :
        b \in ClockBases, s \in 0..MaxOffset, o \in 0..(TicksPerSec - 1) }

Idle == [view |-> "idle"]

\* the requests in flight, and the view instance each is handled by:
\* as_view() makes a new instance for every request
Requests == 1..MaxRequests
Instance_shared(r) == 1
Instance(r) == r
NewInstance == [user |-> NoUser, mail_signature |-> NoToken]
NoMail == [to |-> "", token |-> NoToken]
NoResponse == [status |-> "", mail_signature |-> NoToken, username |-> ""]
NoReq == [view |-> "none", pc |-> "idle", identifier |-> "", token |-> NoToken,
          method |-> "", mail |-> NoMail, saved |-> 0, response |-> NoResponse]

\* the state of the reset flow of a token: the one it is handed out in, and
\* the one a Reset request that ended with `status` leaves it in
AwaitingToken == "AwaitingToken"
Untracked == "Untracked"
FlowOf(tok) == IF tok \in DOMAIN flow THEN flow[tok] ELSE Untracked
FlowAfter(f, status) ==
    IF status = "invalid" THEN "Invalid"
    ELSE IF status = "redirect_done" THEN "Completed"
    ELSE IF status \in {"form", "SaveError"} THEN "Authorized"
    ELSE f

Init ==
    /\ now = 0
    /\ search_fields \in SearchFieldsChoices
    /\ fail_noexistent_user \in BOOLEAN
    /\ accounts = Pks
    /\ issued = {}
    /\ flow = <<>>
    /\ resp = Idle
    /\ req = [r \in Requests |-> NoReq]
    /\ self = [r \in Requests |-> NewInstance]
    /\ mailbox = {}

\* the wall clock moves forward
Advance ==
    /\ resp = Idle
    /\ \E t \in ClockValues : t > now /\ now' = t
    /\ UNCHANGED <<search_fields, fail_noexistent_user, accounts, issued, flow, resp>>
    /\ UNCHANGED concVars

\* the wall clock is set back (clock adjustment, or a request served by a
\* host whose clock is behind the signing host's)
StepBack ==
    /\ resp = Idle
    /\ \E t \in ClockValues : t < now /\ now - t <= MaxStepBack * TicksPerSec /\ now' = t
    /\ UNCHANGED <<search_fields, fail_noexistent_user, accounts, issued, flow, resp>>
    /\ UNCHANGED concVars

\* the tokens a Recover response hands out: the one in the delivered mail
\* and the one in the redirect URL
Handed(out, user, identifier, clock) ==
    IF out.status # "redirect" THEN {}
    ELSE { [token |-> out.mails[i].token, kind |-> "reset", pk |-> user.pk,
            identifier |-> identifier, signedAt |-> clock] : i \in 1..Len(out.mails) }
         \cup
         { [token |-> out.mail_signature,
            kind |-> IF user # NoUser THEN "ack" ELSE "decoy", pk |-> user.pk,
            identifier |-> identifier, signedAt |-> clock] }

\* POST of a valid recovery form
RecoverPost ==
    /\ resp = Idle
    /\ Cardinality({ i \in issued : i.kind \in {"ack", "decoy"} }) < MaxRecover
    /\ \E identifier \in Identifiers, sendOk \in BOOLEAN :
         LET user == FindUser(identifier, search_fields)
             out == Recover_form_valid(user, identifier, search_fields, now, sendOk)
         IN  /\ issued' = issued \cup Handed(out, user, identifier, now)
             /\ flow' = [ tok \in DOMAIN flow \cup
                                  { h.token : h \in { g \in Handed(out, user, identifier, now) :
                                                         g.kind = "reset" } }
                           |-> IF tok \in DOMAIN flow THEN flow[tok] ELSE AwaitingToken ]
             /\ resp' = [view |-> "recover", identifier |-> identifier,
                         user |-> user, sendOk |-> sendOk, clock |-> now,
                         handed |-> Handed(out, user, identifier, now),
                         out |-> out]
    /\ UNCHANGED <<now, search_fields, fail_noexistent_user, accounts>>
    /\ UNCHANGED concVars

\* what a client can put into a URL: a token it was handed, or one it made
\* from such a token without knowing SECRET_KEY
Forgeries(tok) ==
    { <<tok[1], tok[2], [tok[3] EXCEPT !.key = "guess"]>>,
      <<tok[1], b62_encode(timestamp(now)), tok[3]>>,
      <<tok[1], tok[2]>>,
      <<tok[1]>> }
    \cup { <<b64_encode(json_dumps(PyInt(pk))), tok[2], tok[3]>> : pk \in Pks }
    \cup { LET signed == <<b64_encode(json_dumps(PyInt(pk))), tok[2]>>
           IN  Append(signed, [key_salt |-> salt \o "signer", msg |-> signed,
                               key |-> "guess"]) : pk \in Pks }
Presentable ==
    { i.token : i \in issued } \cup UNION { Forgeries(i.token) : i \in issued }

\* GET of the confirmation URL
RecoverDoneGet ==
    /\ resp = Idle
    /\ \E tok \in Presentable, gap \in 0..MaxReadGap :
         resp' = [view |-> "recover_done", token |-> tok, clock |-> now, gap |-> gap,
                  lwt |-> loads_with_timestamp(tok, url_salt, now, now + gap),
                  out |-> RecoverDone_get_context_data(tok, fail_noexistent_user,
                                                       now, now + gap)]
    /\ UNCHANGED <<now, search_fields, fail_noexistent_user, accounts, issued, flow>>
    /\ UNCHANGED concVars

\* GET or POST of the reset URL
ResetRequest ==
    /\ resp = Idle
    /\ \E tok \in Presentable,
          m \in { <<"GET", TRUE, TRUE>>, <<"POST", TRUE, TRUE>>,
                  <<"POST", TRUE, FALSE>>, <<"POST", FALSE, TRUE>> } :
         LET out == Reset_request(m[1], tok, m[2], m[3], now)
         IN  /\ resp' = [view |-> "reset", token |-> tok, clock |-> now,
                         method |-> m[1], formOk |-> m[2], saveOk |-> m[3],
                         prev |-> FlowOf(tok), out |-> out]
             /\ flow' = [ t \in DOMAIN flow |->
                            IF t = tok THEN FlowAfter(flow[t], out.status)
                            ELSE flow[t] ]
    /\ UNCHANGED <<now, search_fields, fail_noexistent_user, accounts, issued>>
    /\ UNCHANGED concVars

\* the response is delivered; the server is ready for the next request
Deliver ==
    /\ resp # Idle
    /\ resp' = Idle
    /\ UNCHANGED <<now, search_fields, fail_noexistent_user, accounts, issued, flow>>
    /\ UNCHANGED concVars

Next ==
    \/ Advance
    \/ StepBack
    \/ RecoverPost
    \/ RecoverDoneGet
    \/ ResetRequest
    \/ Deliver

Spec == Init /\ [][Next]_vars

\* an account is deleted from the User table
DeleteUser ==
    /\ resp = Idle
    /\ \E pk \in accounts : accounts' = accounts \ {pk}
    /\ UNCHANGED <<now, search_fields, fail_noexistent_user, issued, flow, resp>>
    /\ UNCHANGED concVars

NextStore ==
    \/ Advance
    \/ RecoverPost
    \/ ResetRequest
    \/ Deliver
    \/ DeleteUser

\* the views over a User table from which accounts get deleted
SpecStore == Init /\ [][NextStore]_vars

\* ------------------------------------- requests handled at the same time
\* the statement of Recover.form_valid that follows the one at pc
RecoverNextPc_sign_first(pc, hasUser, sendOk) ==
    IF pc = "form_valid" THEN (IF hasUser THEN "sign" ELSE "fake")
    ELSE IF pc = "sign" THEN "send"
    ELSE IF pc = "send" THEN (IF sendOk THEN "redirect" ELSE "failed")
    ELSE IF pc = "fake" THEN "redirect"
    ELSE "done"
RecoverNextPc(pc, hasUser, sendOk) ==
    IF pc = "form_valid" THEN (IF hasUser THEN "send" ELSE "fake")
    ELSE IF pc = "send" THEN (IF sendOk THEN "sign" ELSE "failed")
    ELSE IF pc = "sign" THEN "redirect"
    ELSE IF pc = "fake" THEN "redirect"
    ELSE "done"

\* a POST of the recovery form arrives and gets its view instance
CRecoverStart(r) ==
    /\ req[r].view = "none"
    /\ \E identifier \in Identifiers :
         req' = [req EXCEPT ![r] = [NoReq EXCEPT !.view = "recover",
                                                 !.pc = "form_valid",
                                                 !.identifier = identifier]]
    /\ self' = [self EXCEPT ![Instance(r)] = NewInstance]
    /\ UNCHANGED <<mailbox, seqVars>>

\* self.user = form.cleaned_data['user']
CRecoverSetUser(r) ==
    /\ req[r].view = "recover" /\ req[r].pc = "form_valid"
    /\ LET user == FindUser(req[r].identifier, search_fields)
       IN  /\ self' = [self EXCEPT ![Instance(r)].user = user]
           /\ req' = [req EXCEPT ![r].pc = RecoverNextPc("form_valid", user # NoUser, TRUE)]
    /\ UNCHANGED <<mailbox, seqVars>>

\* self.send_notification()
CRecoverSend(r) ==
    /\ req[r].view = "recover" /\ req[r].pc = "send"
    /\ \E sendOk \in BOOLEAN :
         LET mail == send_notification(self[Instance(r)].user, now)
         IN  IF sendOk
             THEN /\ req' = [req EXCEPT ![r].mail = mail,
                                        ![r].pc = RecoverNextPc("send", TRUE, TRUE)]
                  /\ mailbox' = mailbox \cup {mail.token}
             ELSE /\ req' = [req EXCEPT ![r].pc = RecoverNextPc("send", TRUE, FALSE),
                                        ![r].response.status = "MailError"]
                  /\ UNCHANGED mailbox
    /\ UNCHANGED <<self, seqVars>>

\* self.mail_signature = signing.dumps(email, salt=self.url_salt)
CRecoverSign(r) ==
    /\ req[r].view = "recover" /\ req[r].pc = "sign"
    /\ self' = [self EXCEPT ![Instance(r)].mail_signature =
                   dumps(PyStr(disclosed(self[Instance(r)].user, search_fields)),
                         url_salt, now)]
    /\ req' = [req EXCEPT ![r].pc = RecoverNextPc("sign", TRUE, TRUE)]
    /\ UNCHANGED <<mailbox, seqVars>>

\* self.mail_signature = signing.dumps(username_or_email, salt='fake-send')
CRecoverFake(r) ==
    /\ req[r].view = "recover" /\ req[r].pc = "fake"
    /\ self' = [self EXCEPT ![Instance(r)].mail_signature =
                   dumps(PyStr(req[r].identifier), fake_salt, now)]
    /\ req' = [req EXCEPT ![r].pc = RecoverNextPc("fake", FALSE, TRUE)]
    /\ UNCHANGED <<mailbox, seqVars>>

\* the redirect to get_success_url(), which reads self.mail_signature
CRecoverRedirect(r) ==
    /\ req[r].view = "recover" /\ req[r].pc = "redirect"
    /\ req' = [req EXCEPT ![r].pc = RecoverNextPc("redirect", TRUE, TRUE),
                          ![r].response.status = "redirect",
                          ![r].response.mail_signature = self[Instance(r)].mail_signature]
    /\ UNCHANGED <<self, mailbox, seqVars>>

\* a GET or POST of the reset URL arrives with a mailed token
CResetStart(r) ==
    /\ req[r].view = "none"
    /\ \E tok \in mailbox, method \in {"GET", "POST"} :
         req' = [req EXCEPT ![r] = [NoReq EXCEPT !.view = "reset", !.pc = "dispatch",
                                                 !.token = tok, !.method = method]]
    /\ self' = [self EXCEPT ![Instance(r)] = NewInstance]
    /\ UNCHANGED <<mailbox, seqVars>>

\* Reset.dispatch: verify the token and set self.user
CResetDispatch(r) ==
    /\ req[r].view = "reset" /\ req[r].pc = "dispatch"
    /\ LET d == Reset_dispatch(req[r].token, now)
       IN  IF d.status = "authorized"
           THEN /\ self' = [self EXCEPT ![Instance(r)].user = UserByPk(d.user)]
                /\ req' = [req EXCEPT ![r].pc = IF req[r].method = "POST"
                                                THEN "save" ELSE "render"]
           ELSE /\ req' = [req EXCEPT ![r].pc = "done", ![r].response.status = d.status]
                /\ UNCHANGED self
    /\ UNCHANGED <<mailbox, seqVars>>

\* Reset.get_context_data: the form page shows self.user.username
CResetRender(r) ==
    /\ req[r].view = "reset" /\ req[r].pc = "render"
    /\ req' = [req EXCEPT ![r].pc = "done",
                          ![r].response.status = "form",
                          ![r].response.username = self[Instance(r)].user.username]
    /\ UNCHANGED <<self, mailbox, seqVars>>

\* Reset.get_form_kwargs and form_valid: the form saves for self.user
CResetSave(r) ==
    /\ req[r].view = "reset" /\ req[r].pc = "save"
    /\ req' = [req EXCEPT ![r].pc = "done",
                          ![r].saved = self[Instance(r)].user.pk,
                          ![r].response.status = "redirect_done"]
    /\ UNCHANGED <<self, mailbox, seqVars>>

\* the response has gone out
CFinish(r) ==
    /\ req[r].pc \in {"done", "failed"}
    /\ req' = [req EXCEPT ![r] = NoReq]
    /\ UNCHANGED <<self, mailbox, seqVars>>

NextConc ==
    \/ \E r \in Requests : CRecoverStart(r)
    \/ \E r \in Requests : CRecoverSetUser(r)
    \/ \E r \in Requests : CRecoverSend(r)
    \/ \E r \in Requests : CRecoverSign(r)
    \/ \E r \in Requests : CRecoverFake(r)
    \/ \E r \in Requests : CRecoverRedirect(r)
    \/ \E r \in Requests : CResetStart(r)
    \/ \E r \in Requests : CResetDispatch(r)
    \/ \E r \in Requests : CResetRender(r)
    \/ \E r \in Requests : CResetSave(r)
    \/ \E r \in Requests : CFinish(r)

\* the views handling up to MaxRequests requests statement by statement
SpecConc == Init /\ [][NextConc]_vars

\* ------------------------------------------------------------ properties
IssuedAs(tok, kind) == \E i \in issued : i.kind = kind /\ i.token = tok
\* seconds-since-epoch timestamp a handed-out token carries
EmbeddedTs(tok) == b62_decode(tok[2])
\* age of a handed-out token at a clock reading, in ticks
AgeAt(tok, clock) == clock - EmbeddedTs(tok) * TicksPerSec
MaxAgeTicks == token_expires * TicksPerSec
InvalidPage ==
    [status |-> "invalid", user |-> 0, lookups |-> <<>>, save_calls |-> 0, saved |-> {}]
\* how a request ends that got past Reset.dispatch
AuthorizedStatus == {"form", "redirect_done", "SaveError"}

\* C1: a Reset request gets past dispatch only with a token that was signed
\* under the reset salt and whose age is at most token_expires; every other
\* token (forged, malformed, other salt, authentic but expired) gets the one
\* invalid page: no exception, no account looked up, none saved.
C1_ResetAuthorizesOnlyFreshAuthentic ==
    resp.view = "reset" =>
        LET fresh == /\ IssuedAs(resp.token, "reset")
                     /\ AgeAt(resp.token, resp.clock) <= MaxAgeTicks
        IN  /\ resp.out.status # "invalid" => fresh
            /\ ~fresh => resp.out = InvalidPage

C1_Witness_ExpiredAuthenticRejected ==
    /\ resp.view = "reset"
    /\ IssuedAs(resp.token, "reset")
    /\ AgeAt(resp.token, resp.clock) > MaxAgeTicks
    /\ resp.out = InvalidPage

\* C2: a token signed under url_salt or under 'fake-send' is invalid for
\* Reset.dispatch whatever its payload, and a reset token makes
\* loads_with_timestamp (RecoverDone) fail with BadSignature.
C2_SaltsSeparateTokens ==
    /\ ( resp.view = "reset" /\ ( \/ IssuedAs(resp.token, "ack")
                                  \/ IssuedAs(resp.token, "decoy") )
         => resp.out = InvalidPage )
    /\ ( resp.view = "recover_done" /\ IssuedAs(resp.token, "reset")
         => resp.lwt = Raised("BadSignature") /\ DOMAIN resp.out.ctx = {} )

\* a decoy token whose payload "1" reads as an existing pk is rejected
C2_Witness_DecoyWithPkPayloadRejected ==
    /\ resp.view = "reset"
    /\ \E i \in issued : /\ i.kind = "decoy" /\ i.token = resp.token
                         /\ i.identifier = "1" /\ 1 \in Pks
    /\ resp.out = InvalidPage

C4_Original_AcceptedUpToSigningInstantPlusMaxAge ==
    resp.view = "reset" =>
        \A i \in issued :
            /\ i.kind = "reset" /\ i.token = resp.token
            /\ resp.clock <= i.signedAt + MaxAgeTicks
            => resp.out.status \in AuthorizedStatus

\* C4 (amended): with T0 the whole-second timestamp the token carries (the
\* signing instant truncated to seconds), a query is accepted at every clock
\* reading t <= T0 + token_expires, the bound included, and rejected as
\* invalid at every t > T0 + token_expires; so a rejection for age is never
\* followed by an acceptance at a later reading, and the payload read from
\* the token is the same pk at every reading.
C4_ExpiryBoundFromEmbeddedTimestamp ==
    /\ resp.view = "reset" =>
         \A i \in issued :
            i.kind = "reset" /\ i.token = resp.token
            => IF resp.clock <= (EmbeddedTs(i.token) + token_expires) * TicksPerSec
               THEN resp.out.status \in AuthorizedStatus /\ resp.out.user = i.pk
               ELSE resp.out = InvalidPage
    /\ \A i \in issued :
         i.kind = "reset"
         => /\ EmbeddedTs(i.token) * TicksPerSec <= i.signedAt
            /\ i.signedAt < (EmbeddedTs(i.token) + 1) * TicksPerSec
            /\ \A t \in ClockValues :
                  loads(i.token, salt, NoMaxAge, t).obj = PyInt(i.pk)

C4_Witness_AcceptedExactlyAtBound ==
    /\ resp.view = "reset"
    /\ IssuedAs(resp.token, "reset")
    /\ AgeAt(resp.token, resp.clock) = MaxAgeTicks
    /\ resp.out.status \in AuthorizedStatus

\* the identifier form_valid is to disclose for the account pk
DisclosedIdentifier(pk) ==
    IF search_fields = <<"username">> THEN PyStr(UserByPk(pk).username)
    ELSE PyStr(UserByPk(pk).email)

\* C5: for an acknowledgement token signed at T0 and presented at any later
\* clock reading, loads_with_timestamp returns (timestamp, payload) where the
\* payload is the one signed and the timestamp is T0 truncated to the whole
\* second, plus whatever passed between the two clock readings.
C5_TimestampRecovered ==
    resp.view = "recover_done" =>
        \A i \in issued :
            i.kind = "ack" /\ i.token = resp.token /\ resp.clock >= i.signedAt
            => /\ resp.lwt.exc = ""
               /\ resp.lwt.ret.t = "tuple"
               /\ resp.lwt.ret.v[1] - resp.gap = timestamp(i.signedAt) * TicksPerSec
               /\ resp.lwt.ret.v[1] - resp.gap <= i.signedAt
               /\ resp.lwt.ret.v[1] - resp.gap > i.signedAt - TicksPerSec
               /\ resp.lwt.ret.v[2] = DisclosedIdentifier(i.pk)

C5_Witness_RecoveredAfterSampleDelay ==
    /\ resp.view = "recover_done"
    /\ \E i \in issued : /\ i.kind = "ack" /\ i.token = resp.token
                         /\ resp.clock = i.signedAt + SampleDelay * TicksPerSec
                         /\ i.signedAt % TicksPerSec # 0
    /\ resp.gap > 0
    /\ resp.lwt.ret.t = "tuple"

\* C6 as stated: for every authentic acknowledgement token
\* loads_with_timestamp returns the (timestamp, payload) pair, also when the
\* age computed under the forcing max_age of -1 does not exceed it.
C6_Original_PairForEveryAuthenticToken ==
    resp.view = "recover_done" =>
        \A i \in issued :
            i.kind = "ack" /\ i.token = resp.token
            => /\ resp.lwt.exc = ""
               /\ resp.lwt.ret.t = "tuple"
               /\ resp.lwt.ret.v[2] = DisclosedIdentifier(i.pk)

\* C7: for a token that was not signed under url_salt (forged, malformed or
\* signed under another salt) loads_with_timestamp raises BadSignature and
\* returns nothing, and the context has neither 'timestamp' nor 'email'; in
\* every case the two keys are both present or both absent.
C7_BadSignaturePropagates ==
    resp.view = "recover_done" =>
        /\ ~IssuedAs(resp.token, "ack")
           => /\ resp.lwt = Raised("BadSignature")
              /\ DOMAIN resp.out.ctx = {}
              /\ resp.out.status = IF fail_noexistent_user THEN "Http404" ELSE "render"
        /\ DOMAIN resp.out.ctx \in { {}, {"timestamp", "email"} }

C7_Witness_OtherSaltRendersBare ==
    /\ resp.view = "recover_done"
    /\ IssuedAs(resp.token, "reset")
    /\ ~fail_noexistent_user
    /\ resp.lwt = Raised("BadSignature")
    /\ resp.out.status = "render"

\* what a visit of the confirmation URL shows: how it ends and which context
\* keys are set
DoneShape(tok) ==
    LET o == RecoverDone_get_context_data(tok, fail_noexistent_user, now, now)
    IN  <<o.status, DOMAIN o.ctx>>

\* C8 as stated: following the token of a request that matched no account
\* ends like following the token the same request would have returned for a
\* matched account.
C8_Original_ConfirmationSameForDecoy ==
    \A i \in issued :
        i.kind = "decoy"
        => \A u \in Users :
              DoneShape(i.token) =
              DoneShape(Recover_form_valid(u, i.identifier, search_fields,
                                           i.signedAt, TRUE).mail_signature)

\* C9: form_valid hands exactly one mail, addressed to the matched user, to
\* the mail sender when the form resolved an account, and none otherwise;
\* with no account, and with an account whose mail was sent, it produces an
\* acknowledgement token and redirects; the token of the no-match case
\* carries the submitted identifier.
C9_MailIffUser ==
    resp.view = "recover" =>
        /\ resp.user # NoUser
           => /\ Len(resp.out.mails) = 1
              /\ resp.out.mails[1].to = resp.user.email
              /\ resp.sendOk => /\ resp.out.status = "redirect"
                                /\ resp.out.mail_signature # NoToken
        /\ resp.user = NoUser
           => /\ resp.out.mails = <<>>
              /\ resp.out.status = "redirect"
              /\ resp.out.mail_signature # NoToken
              /\ loads(resp.out.mail_signature, fake_salt, NoMaxAge, resp.clock)
                   = Loaded(PyStr(resp.identifier))

C9_Witness_NoMatchNoMail ==
    /\ resp.view = "recover"
    /\ resp.user = NoUser
    /\ resp.identifier = "1"
    /\ resp.out.mails = <<>>
    /\ resp.out.status = "redirect"

\* C10: the acknowledgement token of a matched account carries the username
\* exactly when search_fields is ['username'] and the email otherwise; when
\* only the username is searched no account's email is in the token or in
\* the context of the confirmation page.
C10_DisclosedIdentifier ==
    /\ resp.view = "recover" /\ resp.user # NoUser /\ resp.out.status = "redirect"
       => LET payload == loads(resp.out.mail_signature, url_salt, NoMaxAge,
                               resp.clock).obj
          IN  /\ search_fields = <<"username">> => payload = PyStr(resp.user.username)
              /\ search_fields # <<"username">> => payload = PyStr(resp.user.email)
              /\ (payload = PyStr(resp.user.username)) <=> (search_fields = <<"username">>)
    /\ resp.view = "recover_done" /\ search_fields = <<"username">>
       => \A k \in DOMAIN resp.out.ctx :
             \A u \in Users : resp.out.ctx[k] # PyStr(u.email)

C10_Witness_UsernameOnConfirmationPage ==
    /\ resp.view = "recover_done"
    /\ search_fields = <<"username">>
    /\ DOMAIN resp.out.ctx = {"timestamp", "email"}
    /\ resp.out.ctx["email"] = PyStr("alice")

\* C11 as stated: a Reset request that presents a token whose flow is in
\* Invalid or Completed does not reach Authorized.
C11_Original_NoWayBackToAuthorized ==
    resp.view = "reset" /\ resp.prev \in {"Invalid", "Completed"}
    => resp.out.status \notin AuthorizedStatus

\* C11 (amended): a token whose signature does not verify is invalid at every
\* request, so it never reaches Authorized; but neither a completed reset nor
\* an earlier rejection for age is remembered: a handed-out reset token
\* presented at a clock reading within token_expires of its timestamp reaches
\* Authorized for its account again, also when its flow is in Completed or
\* in Invalid.
C11_OnlyBadSignatureIsFinal ==
    resp.view = "reset" =>
        /\ ~IssuedAs(resp.token, "reset") => resp.out.status = "invalid"
        /\ \A i \in issued :
              /\ i.kind = "reset" /\ i.token = resp.token
              /\ resp.prev \in {"Invalid", "Completed"}
              /\ AgeAt(i.token, resp.clock) <= MaxAgeTicks
              => resp.out.status \in AuthorizedStatus
                 /\ resp.out.user = i.pk

C11_Witness_CompletedTokenAuthorizedAgain ==
    /\ resp.view = "reset"
    /\ resp.prev = "Completed"
    /\ resp.out.status = "redirect_done"

\* C12: when the mail sender fails, Recover.form_valid has called it once,
\* produces no acknowledgement token and ends in the failure instead of the
\* redirect; when form.save() fails, Reset.form_valid has called it once,
\* changes no credential and ends in the failure instead of the redirect.
C12_CollaboratorFailureSurfaces ==
    /\ resp.view = "recover" /\ resp.user # NoUser /\ ~resp.sendOk
       => /\ resp.out.status = "MailError"
          /\ Len(resp.out.mails) = 1
          /\ resp.out.mail_signature = NoToken
          /\ resp.handed = {}
    /\ resp.view = "reset" /\ resp.method = "POST" /\ resp.formOk /\ ~resp.saveOk
       /\ resp.out.lookups # <<>> /\ resp.out.user # 0
       => /\ resp.out.status = "SaveError"
          /\ resp.out.save_calls = 1
          /\ resp.out.saved = {}

C12_Witness_MailFailureNoToken ==
    /\ resp.view = "recover"
    /\ resp.user # NoUser
    /\ ~resp.sendOk
    /\ resp.out.status = "MailError"

\* C13 as stated: one request makes at most one mail-send call and at most
\* one account-store call (lookup or save).
C13_Original_AtMostOneStoreCall ==
    /\ resp.view = "recover" => Len(resp.out.mails) <= 1
    /\ resp.view = "reset" => Len(resp.out.lookups) + resp.out.save_calls <= 1

\* C13 (amended): one request makes at most one mail-send call, at most one
\* account lookup and at most one call of form.save(); a Reset POST that
\* completes a password change makes exactly two account-store calls, the
\* lookup in dispatch and the save in form_valid.
C13_AtMostOneCallOfEachKind ==
    /\ resp.view = "recover" => Len(resp.out.mails) <= 1
    /\ resp.view = "reset"
       => /\ Len(resp.out.lookups) <= 1
          /\ resp.out.save_calls <= 1
          /\ Cardinality(resp.out.saved) <= resp.out.save_calls
          /\ resp.out.status = "redirect_done"
             => Len(resp.out.lookups) = 1 /\ resp.out.save_calls = 1

C13_Witness_CompletingPostTwoStoreCalls ==
    /\ resp.view = "reset"
    /\ resp.method = "POST"
    /\ resp.out.status = "redirect_done"
    /\ Len(resp.out.lookups) + resp.out.save_calls = 2

\* C14 as stated: a token that does not verify under url_salt ends in
\* Http404 when fail_noexistent_user is set and in a page without timestamp
\* and email when it is not; a token that verifies under url_salt is always
\* rendered with both.
C14_Original_FlagAloneDecides ==
    resp.view = "recover_done" =>
        IF IssuedAs(resp.token, "ack")
        THEN /\ resp.out.status = "render"
             /\ DOMAIN resp.out.ctx = {"timestamp", "email"}
        ELSE /\ resp.out.status = IF fail_noexistent_user THEN "Http404" ELSE "render"
             /\ DOMAIN resp.out.ctx = {}

\* C16: form.save() is called, and a credential changed, only in a POST
\* whose own dispatch found the token signed under the reset salt and within
\* token_expires at that request's clock reading; a token whose flow is in
\* Authorized (the form was shown) but which has passed its max age gets the
\* invalid page and changes nothing.
C16_AuthorizationRecheckedEveryRequest ==
    resp.view = "reset" =>
        /\ resp.out.save_calls > 0 \/ resp.out.saved # {}
           => /\ resp.method = "POST"
              /\ \E i \in issued : /\ i.kind = "reset" /\ i.token = resp.token
                                   /\ AgeAt(i.token, resp.clock) <= MaxAgeTicks
                                   /\ resp.out.saved \subseteq {i.pk}
        /\ /\ resp.prev = "Authorized"
           /\ IssuedAs(resp.token, "reset")
           /\ AgeAt(resp.token, resp.clock) > MaxAgeTicks
           => resp.out = InvalidPage

C16_Witness_ExpiredBetweenGetAndPost ==
    /\ resp.view = "reset"
    /\ resp.prev = "Authorized"
    /\ resp.method = "POST" /\ resp.formOk /\ resp.saveOk
    /\ AgeAt(resp.token, resp.clock) > MaxAgeTicks
    /\ resp.out = InvalidPage

\* C17: an authentic, unexpired reset token whose pk is of no account in the
\* User table ends in Http404 after the one lookup: not in the invalid page,
\* not in Authorized, and without any save.
C17_DeletedAccountIsNotFound ==
    resp.view = "reset" =>
        \A i \in issued :
            /\ i.kind = "reset" /\ i.token = resp.token
            /\ AgeAt(i.token, resp.clock) <= MaxAgeTicks
            /\ i.pk \notin accounts
            => /\ resp.out.status = "Http404"
               /\ resp.out.lookups = <<i.pk>>
               /\ resp.out.save_calls = 0
               /\ resp.out.saved = {}

C17_Witness_DeletedAccountPost ==
    /\ resp.view = "reset"
    /\ resp.method = "POST" /\ resp.formOk
    /\ \E i \in issued : /\ i.kind = "reset" /\ i.token = resp.token
                         /\ i.pk \notin accounts
    /\ resp.out.status = "Http404"

\* the account a request is about: the one its identifier matches, or the
\* one its token was signed for
OwnUser(r) ==
    IF req[r].view = "recover" THEN FindUser(req[r].identifier, search_fields)
    ELSE LET pk == ToPk(loads(req[r].token, salt, NoMaxAge, now).obj)
         IN  IF pk \in Pks THEN UserByPk(pk) ELSE NoUser

\* C15: in every interleaving of the requests in flight, the mail a request
\* sends goes to its own matched user and carries that user's pk, its
\* acknowledgement token carries its own user's identifier (or its own
\* submitted identifier), and the account it shows or saves is the one its
\* own token names.
C15_RequestsDoNotInterfere ==
    \A r \in Requests :
        /\ req[r].view = "recover" =>
             /\ req[r].mail # NoMail
                => /\ OwnUser(r) # NoUser
                   /\ req[r].mail.to = OwnUser(r).email
                   /\ loads(req[r].mail.token, salt, NoMaxAge, now)
                        = Loaded(PyInt(OwnUser(r).pk))
             /\ req[r].response.status = "redirect"
                => IF OwnUser(r) # NoUser
                   THEN loads(req[r].response.mail_signature, url_salt, NoMaxAge, now)
                          = Loaded(DisclosedIdentifier(OwnUser(r).pk))
                   ELSE loads(req[r].response.mail_signature, fake_salt, NoMaxAge, now)
                          = Loaded(PyStr(req[r].identifier))
        /\ req[r].view = "reset" =>
             /\ req[r].saved # 0 => req[r].saved = OwnUser(r).pk
             /\ req[r].response.status = "form"
                => req[r].response.username = OwnUser(r).username

\* two recovery requests for different accounts are both between their mail
\* and their acknowledgement token
C15_Witness_TwoRecoversInterleaved ==
    /\ req[1].view = "recover" /\ req[1].pc = "sign"
    /\ req[2].view = "recover" /\ req[2].pc = "sign"
    /\ req[1].mail # NoMail /\ req[2].mail # NoMail
    /\ req[1].mail.to # req[2].mail.to

\* C18: for a matched account form_valid signs the reset token and sends the
\* mail before it signs the acknowledgement token and redirects: whenever a
\* request holds, or has returned, an acknowledgement token signed under
\* url_salt, its mail has been sent successfully.
C18_MailBeforeAcknowledgement ==
    \A r \in Requests :
        req[r].view = "recover" =>
            /\ loads(self[Instance(r)].mail_signature, url_salt, NoMaxAge, now).ok
               => /\ req[r].mail # NoMail
                  /\ req[r].mail.token \in mailbox
            /\ loads(req[r].response.mail_signature, url_salt, NoMaxAge, now).ok
               => /\ req[r].mail # NoMail
                  /\ req[r].mail.token \in mailbox
                  /\ req[r].response.status = "redirect"
            /\ req[r].pc = "failed"
               => /\ req[r].response.mail_signature = NoToken
                  /\ self[Instance(r)].mail_signature = NoToken

C18_Witness_AckReturnedAfterMail ==
    \E r \in Requests :
        /\ req[r].view = "recover"
        /\ req[r].response.status = "redirect"
        /\ loads(req[r].response.mail_signature, url_salt, NoMaxAge, now).ok
        /\ req[r].mail # NoMail

====
